---------------------------- MODULE Spec2Model ----------------------------
(***************************************************************************)
(* ScriptBoard web client: the resource client (services/api.ts), the     *)
(* application state container (contexts/AppContext.tsx), the session     *)
(* store (contexts/AuthContext.tsx), the route guards                      *)
(* (components/layout) and the page views (AuthPages, DashboardPage,       *)
(* EditorPage), as one state machine.                                      *)
(*                                                                         *)
(* Every event handler is one action.  An async handler is two actions:    *)
(* the synchronous part up to its await (it adds a request to `pending`,   *)
(* together with the values its closure captured), and the continuation    *)
(* that runs when the response arrives.                                    *)
(*                                                                         *)
(* Optional values (T | null | undefined) are sequences of length <= 1.    *)
(* Texts are sequences of one-character strings.                           *)
(***************************************************************************)
EXTENDS Integers, Sequences, FiniteSets, TLC

(***************************************************************************)
(* Bounds of the model.                                                    *)
(***************************************************************************)
\* requests that may be in flight together
MaxInFlight == 2

(***************************************************************************)
(* Optional values and texts.                                              *)
(***************************************************************************)
None == <<>>
Some(x) == <<x>>
IsSome(o) == o # <<>>
Get(o) == o[1]

IsSpace(c) == c = " "

RECURSIVE TrimLeft(_)
TrimLeft(s) == IF s # <<>> /\ IsSpace(Head(s)) THEN TrimLeft(Tail(s)) ELSE s

RECURSIVE TrimRight(_)
TrimRight(s) ==
  IF s # <<>> /\ IsSpace(s[Len(s)]) THEN TrimRight(SubSeq(s, 1, Len(s) - 1)) ELSE s

\* String.prototype.trim
Trim(s) == TrimRight(TrimLeft(s))

(***************************************************************************)
(* Data (types/index.ts).                                                  *)
(***************************************************************************)
ProjectIds == {1, 2}

\* Project: storyboardData is optional, so it is an optional scene list
Project(i, script, sb) == [id |-> i, scriptContent |-> script, storyboardData |-> sb]

\* the project values the remote service may hold and return
ProjectValues ==
  { Project(1, <<>>, None),
    Project(1, <<"a">>, Some(<<"sc1">>)),
    Project(2, <<"b">>, Some(<<>>)) }

Users == {"u1"}
Tokens == {"t1", "t2"}

\* AuthResponse
AuthResponses == [user : Users, token : Tokens]

\* ConversionResponse (processingTime and metadata are display only)
ConversionResponses == [storyboard : {<<>>, <<"sc2", "sc3">>}]

(***************************************************************************)
(* localStorage: a map from the keys that are present to their values.     *)
(***************************************************************************)
\* a key is the sequence of its characters
AUTH_TOKEN == <<"a", "u", "t", "h", "_", "t", "o", "k", "e", "n">>

THEME == <<"t", "h", "e", "m", "e">>

getItem(ls, key) == IF key \in DOMAIN ls THEN Some(ls[key]) ELSE None

setItem(ls, key, value) ==
  [k \in DOMAIN ls \cup {key} |-> IF k = key THEN value ELSE ls[k]]

removeItem(ls, key) == [k \in DOMAIN ls \ {key} |-> ls[k]]

EmptyStorage == [k \in {} |-> ""]

\* String.prototype.startsWith
StartsWith(s, prefix) ==
  Len(s) >= Len(prefix) /\ SubSeq(s, 1, Len(prefix)) = prefix

(***************************************************************************)
(* What the transport delivers for a request.  status is None when no      *)
(* response arrived (a network failure or the 30 s timeout); the envelope  *)
(* {success, data?, message?} is read only from a 2xx response.            *)
(***************************************************************************)
UNAUTHORIZED == 401

Envelope(success, data, message) ==
  [status |-> Some(200), success |-> success, data |-> data, message |-> message]

HttpError(code) ==
  [status |-> Some(code), success |-> FALSE, data |-> None, message |-> None]

NetworkError ==
  [status |-> None, success |-> FALSE, data |-> None, message |-> None]

\* AxiosError.message
AxiosMessage(resp) ==
  IF resp.status = None THEN "Network Error"
  ELSE IF resp.status = Some(UNAUTHORIZED) THEN "Request failed with status code 401"
  ELSE "Request failed with status code 500"

\* a || b on an optional string: the empty string is falsy too
OrDefault(message, default) ==
  IF message = None \/ message = Some("") THEN default ELSE Get(message)

(***************************************************************************)
(* services/api.ts.  An operation applied to the response of its request   *)
(* gives: the local storage afterwards, whether window.location.href was   *)
(* assigned, and either the returned value or the message of the error     *)
(* thrown.                                                                 *)
(***************************************************************************)
Returned(ls, value) ==
  [ls |-> ls, href |-> FALSE, threw |-> FALSE, message |-> "", value |-> value]

Thrown(ls, href, message) ==
  [ls |-> ls, href |-> href, threw |-> TRUE, message |-> message, value |-> None]

getToken(ls) == getItem(ls, AUTH_TOKEN)
setToken(ls, token) == setItem(ls, AUTH_TOKEN, token)

clearToken(ls) == removeItem(ls, AUTH_TOKEN)

\* `Bearer ${token}`
Bearer(token) == [scheme |-> "Bearer", credentials |-> token]

RequestInterceptor_Always(ls) ==
  Some(Bearer(IF IsSome(getToken(ls)) THEN Get(getToken(ls)) ELSE "null"))

\* the request interceptor: the Authorization header of a request sent now
RequestInterceptor(ls) ==
  IF IsSome(getToken(ls)) /\ Get(getToken(ls)) # ""
  THEN Some(Bearer(Get(getToken(ls))))
  ELSE None

ResponseInterceptor_NoClear(ls, resp) ==
  Thrown(ls, resp.status = Some(UNAUTHORIZED), AxiosMessage(resp))

\* the response interceptor's error branch, for a response that is not 2xx
ResponseInterceptor(ls, resp) ==
  IF resp.status = Some(UNAUTHORIZED)
  THEN Thrown(clearToken(ls), TRUE, AxiosMessage(resp))
  ELSE Thrown(ls, FALSE, AxiosMessage(resp))

\* axios rejects every response outside 2xx, and every request without a response
Rejected(resp) == resp.status # Some(200)

EnvelopeData_IgnoreData(ls, resp, default) ==
  IF Rejected(resp) THEN ResponseInterceptor(ls, resp)
  ELSE IF resp.success THEN Returned(ls, resp.data)
  ELSE Thrown(ls, FALSE, OrDefault(resp.message, default))

\* if (response.data.success && response.data.data) return data; throw ...
EnvelopeData(ls, resp, default) ==
  IF Rejected(resp) THEN ResponseInterceptor(ls, resp)
  ELSE IF resp.success /\ IsSome(resp.data) THEN Returned(ls, resp.data)
  ELSE Thrown(ls, FALSE, OrDefault(resp.message, default))

\* if (!response.data.success) throw ...
EnvelopeVoid(ls, resp, default) ==
  IF Rejected(resp) THEN ResponseInterceptor(ls, resp)
  ELSE IF ~resp.success THEN Thrown(ls, FALSE, OrDefault(resp.message, default))
  ELSE Returned(ls, None)

AuthCall_ClearOnFailure(ls, resp, default) ==
  IF Rejected(resp) THEN ResponseInterceptor(ls, resp)
  ELSE IF resp.success /\ IsSome(resp.data)
       THEN Returned(setToken(ls, Get(resp.data).token), resp.data)
       ELSE Thrown(clearToken(ls), FALSE, OrDefault(resp.message, default))

AuthCall_StoreOnFailure(ls, resp, default) ==
  IF Rejected(resp) THEN ResponseInterceptor(ls, resp)
  ELSE IF resp.success /\ IsSome(resp.data)
       THEN Returned(setToken(ls, Get(resp.data).token), resp.data)
       ELSE Thrown(setToken(ls, "t2"), FALSE, OrDefault(resp.message, default))

\* the body shared by login and register
AuthCall(ls, resp, default) ==
  IF Rejected(resp) THEN ResponseInterceptor(ls, resp)
  ELSE IF resp.success /\ IsSome(resp.data)
       THEN Returned(setToken(ls, Get(resp.data).token), resp.data)
       ELSE Thrown(ls, FALSE, OrDefault(resp.message, default))

Api_login(ls, resp) == AuthCall(ls, resp, "Login failed")

Api_register(ls, resp) == AuthCall(ls, resp, "Registration failed")

Api_logout_NoFinally(ls, resp) ==
  IF Rejected(resp)
  THEN ResponseInterceptor(ls, resp)
  ELSE Returned(clearToken(ls), None)

\* try { await post } finally { clearToken() }
Api_logout(ls, resp) ==
  IF Rejected(resp)
  THEN LET r == ResponseInterceptor(ls, resp)
       IN  Thrown(clearToken(r.ls), r.href, r.message)
  ELSE Returned(clearToken(ls), None)

Api_getProfile(ls, resp) == EnvelopeData(ls, resp, "Failed to get profile")

\* returns response.data, the whole paginated envelope, whatever its success
Api_getProjects(ls, resp) ==
  IF Rejected(resp) THEN ResponseInterceptor(ls, resp)
  ELSE Returned(ls, Some([success |-> resp.success, data |-> resp.data,
                          message |-> resp.message]))

Api_getProject(ls, resp) == EnvelopeData(ls, resp, "Failed to get project")

Api_createProject(ls, resp) == EnvelopeData(ls, resp, "Failed to create project")

Api_updateProject(ls, resp) == EnvelopeData(ls, resp, "Failed to update project")

Api_deleteProject(ls, resp) == EnvelopeVoid(ls, resp, "Failed to delete project")

Api_convertScript(ls, resp) == EnvelopeData(ls, resp, "Failed to convert script")

Api_getStoryboard(ls, resp) == EnvelopeData(ls, resp, "Failed to get storyboard")

Api_updateStoryboard(ls, resp) == EnvelopeData(ls, resp, "Failed to update storyboard")

Api_uploadFile(ls, resp) == EnvelopeData(ls, resp, "Failed to upload file")

Api_exportProject(ls, resp) == EnvelopeData(ls, resp, "Failed to export project")

Api_clearCache(ls, resp) == EnvelopeVoid(ls, resp, "Failed to clear cache")

\* the operations of the resource client that read an envelope
ApiOperations ==
  { "login", "register", "getProfile", "getProjects", "getProject",
    "createProject", "updateProject", "deleteProject", "convertScript",
    "getStoryboard", "updateStoryboard", "uploadFile", "exportProject",
    "clearCache" }

ApiCall(op, ls, resp) ==
  CASE op = "login" -> Api_login(ls, resp)
    [] op = "register" -> Api_register(ls, resp)
    [] op = "logout" -> Api_logout(ls, resp)
    [] op = "getProfile" -> Api_getProfile(ls, resp)
    [] op = "getProjects" -> Api_getProjects(ls, resp)
    [] op = "getProject" -> Api_getProject(ls, resp)
    [] op = "createProject" -> Api_createProject(ls, resp)
    [] op = "updateProject" -> Api_updateProject(ls, resp)
    [] op = "deleteProject" -> Api_deleteProject(ls, resp)
    [] op = "convertScript" -> Api_convertScript(ls, resp)
    [] op = "getStoryboard" -> Api_getStoryboard(ls, resp)
    [] op = "updateStoryboard" -> Api_updateStoryboard(ls, resp)
    [] op = "uploadFile" -> Api_uploadFile(ls, resp)
    [] op = "exportProject" -> Api_exportProject(ls, resp)
    [] op = "clearCache" -> Api_clearCache(ls, resp)

(***************************************************************************)
(* The state.                                                              *)
(***************************************************************************)
VARIABLES
  localStorage,    \* window.localStorage
  hrefAssigned,    \* window.location.href was assigned: a page load of /login is under way
  location,        \* the router's location: [name, projectId], projectId 0 when absent
  user,            \* AuthContext: the identity, optional
  isLoading,       \* AuthContext: the session is being restored
  uiState,         \* AppContext: [isLoading, error, success]
  currentProject,  \* AppContext: the active project, optional
  projects,        \* AppContext: the projects list
  uploadProgress,  \* AppContext: the progress of the file upload, 0..100
  dashboard,       \* DashboardPage's own state
  editor,          \* EditorPage's own state
  authPage,        \* LoginPage's or RegisterPage's own state
  pending,         \* the requests in flight, each with what its handler's closure captured
  lastCall         \* the last call made on its own of the resource client (or of
                   \* clearCache, with the storage it was called with), optional:
                   \* [op, header, resp, ls (the storage before it), result]

vars ==
  << localStorage, hrefAssigned, location, user, isLoading, uiState, currentProject,
     projects, uploadProgress, dashboard, editor, authPage, pending, lastCall >>

\* the state of the page as one record, so that a handler is a function on it
World ==
  [ localStorage |-> localStorage, hrefAssigned |-> hrefAssigned,
    location |-> location, user |-> user, isLoading |-> isLoading,
    uiState |-> uiState, currentProject |-> currentProject, projects |-> projects,
    uploadProgress |-> uploadProgress,
    dashboard |-> dashboard, editor |-> editor, authPage |-> authPage,
    pending |-> pending ]

Commit(w) ==
  /\ Cardinality(w.pending) <= MaxInFlight
  /\ localStorage' = w.localStorage
  /\ hrefAssigned' = w.hrefAssigned
  /\ location' = w.location
  /\ user' = w.user
  /\ isLoading' = w.isLoading
  /\ uiState' = w.uiState
  /\ currentProject' = w.currentProject
  /\ projects' = w.projects
  /\ uploadProgress' = w.uploadProgress
  /\ dashboard' = w.dashboard
  /\ editor' = w.editor
  /\ authPage' = w.authPage
  /\ pending' = w.pending

Loc(name, projectId) == [name |-> name, projectId |-> projectId]

\* the routes of App: /login, /register, /dashboard, /editor, /editor/:projectId
Locations ==
  { Loc("login", 0), Loc("register", 0), Loc("dashboard", 0), Loc("editor", 0) }
    \cup { Loc("editor", i) : i \in ProjectIds }

\* the routes whose element is wrapped in ProtectedRoute
Protected(loc) == loc.name \in {"dashboard", "editor"}

NoErrors == [k \in {} |-> ""]

\* useState initial values of the three pages
DashboardInit ==
  [createErrors |-> NoErrors, selectedProject |-> None, isDeleteModalOpen |-> FALSE]

EditorInit ==
  [ scriptContent |-> <<>>, storyboard |-> <<>>, isConverting |-> FALSE,
    fileUpload |-> None ]

AuthPageInit == [errors |-> NoErrors, isLoading |-> FALSE, error |-> ""]

UiStateInit == [isLoading |-> FALSE, error |-> None, success |-> None]

(***************************************************************************)
(* contexts/AppContext.tsx.  The setters of useState with a functional     *)
(* update read the state at the time they are applied; updateProject and   *)
(* removeProject read currentProject from the closure of the render that   *)
(* created them, which is passed here as closureCurrent (an optional id).  *)
(***************************************************************************)
AppError(code, message) == [code |-> code, message |-> message]

setLoading_ClearMessages(w, loading) ==
  [w EXCEPT !.uiState = [isLoading |-> loading, error |-> None, success |-> None]]

setLoading(w, loading) == [w EXCEPT !.uiState.isLoading = loading]

setError_KeepSuccess(w, error) == [w EXCEPT !.uiState.error = error]

\* error || undefined, success: undefined
setError(w, error) == [w EXCEPT !.uiState.error = error, !.uiState.success = None]

setSuccess_KeepError(w, message) ==
  [w EXCEPT !.uiState.success = IF message = Some("") THEN None ELSE message]

\* message || undefined, error: undefined
setSuccess(w, message) ==
  [w EXCEPT !.uiState.success = IF message = Some("") THEN None ELSE message,
            !.uiState.error = None]

clearCache_All(w) == [w EXCEPT !.localStorage = EmptyStorage]

\* Object.keys(localStorage).forEach(key => key.startsWith('cache_') && removeItem(key))
clearCache(w) ==
  [w EXCEPT !.localStorage =
     [k \in { key \in DOMAIN @ : ~StartsWith(key, <<"c", "a", "c", "h", "e", "_">>) }
        |-> @[k]]]

setUploadProgress(w, progress) == [w EXCEPT !.uploadProgress = progress]

clearMessages(w) == [w EXCEPT !.uiState.error = None, !.uiState.success = None]

setCurrentProject(w, project) == [w EXCEPT !.currentProject = project]

setProjects(w, list) == [w EXCEPT !.projects = list]

ReplaceById_Upsert(list, updatedProject) ==
  IF \E i \in 1..Len(list) : list[i].id = updatedProject.id
  THEN [i \in 1..Len(list) |->
          IF list[i].id = updatedProject.id THEN updatedProject ELSE list[i]]
  ELSE Append(list, updatedProject)

\* prev.map(project => project.id === updatedProject.id ? updatedProject : project)
ReplaceById(list, updatedProject) ==
  [i \in 1..Len(list) |->
     IF list[i].id = updatedProject.id THEN updatedProject ELSE list[i]]

\* prev.filter(project => project.id !== projectId)
RECURSIVE FilterOutId(_, _)
FilterOutId(list, projectId) ==
  IF list = <<>> THEN <<>>
  ELSE IF Head(list).id = projectId THEN FilterOutId(Tail(list), projectId)
  ELSE <<Head(list)>> \o FilterOutId(Tail(list), projectId)

updateProject(w, closureCurrent, updatedProject) ==
  LET w1 == setProjects(w, ReplaceById(w.projects, updatedProject))
  IN  IF closureCurrent = Some(updatedProject.id)
      THEN setCurrentProject(w1, Some(updatedProject))
      ELSE w1

removeProject(w, closureCurrent, projectId) ==
  LET w1 == setProjects(w, FilterOutId(w.projects, projectId))
  IN  IF closureCurrent = Some(projectId)
      THEN setCurrentProject(w1, None)
      ELSE w1

\* currentProject?.id as the closure of the present render holds it
CurrentId(w) == IF IsSome(w.currentProject) THEN Some(Get(w.currentProject).id) ELSE None

(***************************************************************************)
(* Requests.  page is the component that sent the request and live tells   *)
(* whether that component instance is still mounted: the state setters of  *)
(* an unmounted component do nothing.                                      *)
(***************************************************************************)
Request(w, kind, page, id, closureCurrent, closureProjects) ==
  [ kind |-> kind, page |-> page, live |-> TRUE, id |-> id,
    closureCurrent |-> closureCurrent, closureProjects |-> closureProjects,
    file |-> None ]

Send(w, request) == [w EXCEPT !.pending = @ \cup {request}]

\* the kinds of request whose continuation sets state of the page that sent it
LocalKinds ==
  { "login", "register", "createProject", "deleteProject", "getProject", "convertScript",
    "uploadFile", "readAsText" }

(***************************************************************************)
(* Rendering: which page is shown, the redirect of the route guards, and   *)
(* the mount effects of the pages.                                         *)
(***************************************************************************)
\* DashboardPage.loadProjects up to its await
loadProjects(w) ==
  Send(setLoading(w, TRUE), Request(w, "getProjects", "dashboard", 0, None, <<>>))

\* EditorPage.loadProject up to its await
loadProject(w) ==
  IF w.location.projectId = 0 THEN w
  ELSE Send(setLoading(w, TRUE),
            Request(w, "getProject", "editor", w.location.projectId, None, <<>>))

\* EditorPage's useEffect on [projectId]
EditorEffect(w) ==
  IF w.location.projectId # 0 THEN loadProject(w)
  ELSE setCurrentProject(
         [w EXCEPT !.editor.scriptContent = <<>>, !.editor.storyboard = <<>>], None)

ProtectedRoute_RenderAlways(w) == w.location.name

ProtectedRoute_ChildrenWhenIdle(w) ==
  IF w.isLoading THEN "loading" ELSE w.location.name

\* what ProtectedRoute (and Layout requireAuth inside the page) renders:
\* the spinner, nothing while its effect navigates to /login, or the page
ProtectedRoute(w) ==
  IF w.isLoading THEN "loading"
  ELSE IF ~IsSome(w.user) THEN "redirect"
  ELSE w.location.name

\* the component the router shows
ViewOf(w) ==
  IF Protected(w.location) THEN ProtectedRoute(w) ELSE w.location.name

\* the guards' useEffect: navigate('/login')
Redirect(w) ==
  IF ViewOf(w) = "redirect" THEN [w EXCEPT !.location = Loc("login", 0)] ELSE w

Unmount(w, view) ==
  LET w1 == [w EXCEPT !.pending =
               { IF r.page = view /\ r.kind \in LocalKinds
                 THEN [r EXCEPT !.live = FALSE] ELSE r : r \in @ }]
  IN  CASE view = "dashboard" -> [w1 EXCEPT !.dashboard = DashboardInit]
        [] view = "editor" -> [w1 EXCEPT !.editor = EditorInit]
        [] view \in {"login", "register"} -> [w1 EXCEPT !.authPage = AuthPageInit]
        [] OTHER -> w1

Mount(w, view) ==
  CASE view = "dashboard" -> loadProjects(w)
    [] view = "editor" -> EditorEffect(w)
    [] OTHER -> w

\* React's commit after a handler: old is the state before the handler ran
Render(old, new) ==
  LET n == Redirect(new)
      ov == ViewOf(old)
      nv == ViewOf(n)
  IN  IF ov # nv THEN Mount(Unmount(n, ov), nv)
      ELSE IF nv = "editor" /\ old.location.projectId # n.location.projectId
           THEN EditorEffect(n)
           ELSE n

(***************************************************************************)
(* contexts/AuthContext.tsx.                                               *)
(***************************************************************************)
\* the state of a freshly loaded page at loc, and the provider's mount effect:
\* restore the session from the persisted token with a profile fetch
Boot(ls, loc) ==
  LET w0 == [ localStorage |-> ls, hrefAssigned |-> FALSE, location |-> loc,
              user |-> None, isLoading |-> TRUE,
              uiState |-> UiStateInit, currentProject |-> None, projects |-> <<>>,
              uploadProgress |-> 0,
              dashboard |-> DashboardInit, editor |-> EditorInit,
              authPage |-> AuthPageInit, pending |-> {} ]
      w1 == IF IsSome(getToken(ls))
            THEN Send(w0, Request(w0, "getProfile", "auth", 0, None, <<>>))
            ELSE [w0 EXCEPT !.isLoading = FALSE]
      blank == [w1 EXCEPT !.location = Loc("none", 0)]
  IN  Render(blank, w1)


(***************************************************************************)
(* What the remote service may answer.                                     *)
(***************************************************************************)
\* a page sees of a failure only its message and the interceptor's effects
Failures == { Envelope(FALSE, None, Some("X")), HttpError(UNAUTHORIZED) }

Ids(list) == { list[i].id : i \in 1..Len(list) }

\* the lists of projects the service returns: their ids are distinct
ProjectLists ==
  { <<>>,
    << Project(1, <<>>, None) >>,
    << Project(1, <<>>, None), Project(2, <<"b">>, Some(<<>>)) >>,
    << Project(2, <<"b">>, Some(<<>>)), Project(1, <<"a">>, Some(<<"sc1">>)) >> }

\* PaginatedResponse declares data: T[] as always present
ListResponses ==
  { Envelope(TRUE, Some(l), None) : l \in ProjectLists }
    \cup { Envelope(FALSE, Some(<<>>), Some("X")), HttpError(UNAUTHORIZED) }

ExportData == [downloadUrl |-> "url", filename |-> "file.pdf"]

Responses(w, req) ==
  CASE req.kind \in {"login", "register"} ->
         { Envelope(TRUE, Some(a), None) : a \in AuthResponses } \cup Failures
    [] req.kind = "getProfile" ->
         { Envelope(TRUE, Some(u), None) : u \in Users } \cup Failures
    [] req.kind = "logout" -> { Envelope(TRUE, None, None), NetworkError } \cup Failures
    [] req.kind = "getProjects" -> ListResponses
    [] req.kind \in {"getProject", "updateProject"} ->
         { Envelope(TRUE, Some(p), None) : p \in { q \in ProjectValues : q.id = req.id } }
           \cup Failures
    [] req.kind = "createProject" ->
         \* the service gives a new project an id the client has not seen
         { Envelope(TRUE, Some(p), None) :
             p \in { q \in ProjectValues :
                       q.id \notin Ids(req.closureProjects) \cup Ids(w.projects) } }
           \cup Failures
    [] req.kind = "deleteProject" -> { Envelope(TRUE, None, None) } \cup Failures
    [] req.kind = "convertScript" ->
         { Envelope(TRUE, Some(c), None) : c \in ConversionResponses } \cup Failures
    [] req.kind = "exportProject" -> { Envelope(TRUE, Some(ExportData), None) } \cup Failures
    [] req.kind = "uploadFile" ->
         { Envelope(TRUE, Some([url |-> "url", filename |-> Get(req.file).name]), None) }
           \cup Failures
    \* a file being read by a FileReader awaits no response
    [] OTHER -> {}

\* what every continuation starts from: the resource client's effects, the request gone
Base(w, req, r) ==
  [w EXCEPT !.localStorage = r.ls, !.hrefAssigned = @ \/ r.href, !.pending = @ \ {req}]

navigate(w, loc) == [w EXCEPT !.location = loc]

(***************************************************************************)
(* AuthContext: login, register, logout and the restoration.               *)
(***************************************************************************)
Auth_login(w, r) == IF r.threw THEN w ELSE [w EXCEPT !.user = Some(Get(r.value).user)]

Auth_logout(w) == [w EXCEPT !.user = None]

Auth_restore(w, r) == [w EXCEPT !.user = IF r.threw THEN None ELSE r.value,
                                !.isLoading = FALSE]

(***************************************************************************)
(* pages/AuthPages.tsx (in App.tsx).                                       *)
(***************************************************************************)
PASSWORD_MIN == 6
USERNAME_MIN == 3

\* /\S+@\S+\.\S+/.test(s)
MatchesEmail(s) ==
  \E p, q \in 1..Len(s) :
    /\ 1 < p /\ p + 1 < q /\ q < Len(s)
    /\ s[p] = "@" /\ s[q] = "."
    /\ \A i \in (p - 1)..(q + 1) : ~IsSpace(s[i])

\* the object of the fields that have an error
ErrorsOf(fields) ==
  [k \in { f \in DOMAIN fields : IsSome(fields[f]) } |-> Get(fields[k])]

EmailError(email) ==
  IF email = <<>> THEN Some("Email is required")
  ELSE IF ~MatchesEmail(email) THEN Some("Please enter a valid email address")
  ELSE None

PasswordError(password) ==
  IF password = <<>> THEN Some("Password is required")
  ELSE IF Len(password) < PASSWORD_MIN THEN Some("Password must be at least 6 characters")
  ELSE None

\* LoginPage.validateForm: the errors it sets
LoginErrors(form) ==
  ErrorsOf([email |-> EmailError(form.email), password |-> PasswordError(form.password)])

\* RegisterPage.validateForm: the errors it sets
RegisterErrors(form) ==
  ErrorsOf([ username |->
               IF form.username = <<>> THEN Some("Username is required")
               ELSE IF Len(form.username) < USERNAME_MIN
                    THEN Some("Username must be at least 3 characters")
                    ELSE None,
             email |-> EmailError(form.email),
             password |-> PasswordError(form.password),
             confirmPassword |->
               IF form.confirmPassword = <<>> THEN Some("Please confirm your password")
               ELSE IF form.password # form.confirmPassword
                    THEN Some("Passwords do not match")
                    ELSE None ])

GoodEmail == <<"a", "@", "b", ".", "c">>
GoodPassword == <<"p", "p", "p", "p", "p", "p">>

\* the form contents a user submits
LoginForms ==
  { [email |-> <<"a", "@", "b">>, password |-> <<>>],
    [email |-> GoodEmail, password |-> GoodPassword] }

RegisterForms ==
  { [username |-> <<"u", "s", "r">>, email |-> GoodEmail,
     password |-> GoodPassword, confirmPassword |-> GoodPassword],
    [username |-> <<>>, email |-> <<" ">>, password |-> <<"p">>, confirmPassword |-> <<>>] }

handleSubmit_SendAnyway(w, kind, errors) ==
  Send([w EXCEPT !.authPage.errors = errors, !.authPage.isLoading = TRUE,
                 !.authPage.error = ""],
       Request(w, kind, kind, 0, None, <<>>))

\* handleSubmit of LoginPage (kind "login") and RegisterPage (kind "register")
\* up to its await
handleSubmit(w, kind, errors) ==
  LET w1 == [w EXCEPT !.authPage.errors = errors]
  IN  IF DOMAIN errors # {} THEN w1
      ELSE Send([w1 EXCEPT !.authPage.isLoading = TRUE, !.authPage.error = ""],
                Request(w, kind, kind, 0, None, <<>>))

\* handleSubmit after its await: login or register of the session store,
\* navigate('/dashboard') or setError(err.message), and setIsLoading(false)
handleSubmitDone_NoCatch(w, req, r) ==
  LET w1 == Auth_login(Base(w, req, r), r)
      w2 == IF ~r.threw THEN navigate(w1, Loc("dashboard", 0)) ELSE w1
  IN  IF req.live THEN [w2 EXCEPT !.authPage.isLoading = FALSE] ELSE w2

\* handleSubmit after its await
handleSubmitDone(w, req, r) ==
  LET w1 == Auth_login(Base(w, req, r), r)
      w2 == IF ~r.threw THEN navigate(w1, Loc("dashboard", 0))
            ELSE IF req.live THEN [w1 EXCEPT !.authPage.error = r.message]
            ELSE w1
  IN  IF req.live THEN [w2 EXCEPT !.authPage.isLoading = FALSE] ELSE w2

(***************************************************************************)
(* components/layout: Header.handleLogout.                                 *)
(***************************************************************************)
handleLogout(w) == Send(w, Request(w, "logout", "header", 0, None, <<>>))

\* after the await: the session store has cleared the identity; navigate('/login')
\* unless logout threw
handleLogoutDone(w, req, r) ==
  LET w1 == Auth_logout(Base(w, req, r))
  IN  IF r.threw THEN w1 ELSE navigate(w1, Loc("login", 0))


(***************************************************************************)
(* pages/DashboardPage.tsx: DashboardPage.                                 *)
(***************************************************************************)
NAME_MIN == 3
DESCRIPTION_MAX == 500

\* after the await of loadProjects
loadProjectsDone(w, req, r) ==
  LET w0 == Base(w, req, r)
      w1 == IF r.threw
            THEN setError(w0, Some(AppError("LOAD_PROJECTS_ERROR", r.message)))
            ELSE setProjects(w0, Get(Get(r.value).data))
  IN  setLoading(w1, FALSE)

validateCreateForm_NoMinimum(name, descriptionLength) ==
  ErrorsOf([ name |->
               IF Trim(name) = <<>> THEN Some("Project name is required") ELSE None,
             description |->
               IF descriptionLength # 0 /\ descriptionLength > DESCRIPTION_MAX
               THEN Some("Description must be less than 500 characters")
               ELSE None ])

\* validateCreateForm: the errors it sets (the description is given by its length)
validateCreateForm(name, descriptionLength) ==
  ErrorsOf([ name |->
               IF Trim(name) = <<>> THEN Some("Project name is required")
               ELSE IF Len(name) < NAME_MIN
                    THEN Some("Project name must be at least 3 characters")
                    ELSE None,
             description |->
               IF descriptionLength # 0 /\ descriptionLength > DESCRIPTION_MAX
               THEN Some("Description must be less than 500 characters")
               ELSE None ])

\* handleCreateProject up to its await
handleCreateProject(w, name, descriptionLength) ==
  LET errors == validateCreateForm(name, descriptionLength)
      w1 == [w EXCEPT !.dashboard.createErrors = errors]
  IN  IF DOMAIN errors # {} THEN w1
      ELSE Send(setLoading(w1, TRUE),
                Request(w, "createProject", "dashboard", 0, None, w.projects))

\* handleCreateProject after its await: setProjects([...projects, newProject]) with
\* the projects of the render that submitted
handleCreateProjectDone(w, req, r) ==
  LET w0 == Base(w, req, r)
      w1 == IF r.threw
            THEN setError(w0, Some(AppError("CREATE_PROJECT_ERROR", r.message)))
            ELSE LET w2 == setSuccess(
                             setProjects(w0, Append(req.closureProjects, Get(r.value))),
                             Some("Project created successfully!"))
                 IN  IF req.live THEN [w2 EXCEPT !.dashboard.createErrors = NoErrors]
                     ELSE w2
  IN  setLoading(w1, FALSE)

\* handleDeleteProject up to its await
handleDeleteProject(w) ==
  IF ~IsSome(w.dashboard.selectedProject) THEN w
  ELSE Send(setLoading(w, TRUE),
            Request(w, "deleteProject", "dashboard",
                    Get(w.dashboard.selectedProject).id, CurrentId(w), <<>>))

\* handleDeleteProject after its await
handleDeleteProjectDone(w, req, r) ==
  LET w0 == Base(w, req, r)
      w1 == IF r.threw
            THEN setError(w0, Some(AppError("DELETE_PROJECT_ERROR", r.message)))
            ELSE LET w2 == setSuccess(removeProject(w0, req.closureCurrent, req.id),
                                      Some("Project deleted successfully!"))
                 IN  IF req.live
                     THEN [w2 EXCEPT !.dashboard.isDeleteModalOpen = FALSE,
                                     !.dashboard.selectedProject = None]
                     ELSE w2
  IN  setLoading(w1, FALSE)

\* handleExportProject up to its await
handleExportProject(w, project) ==
  Send(setLoading(w, TRUE),
       Request(w, "exportProject", "dashboard", project.id, None, <<>>))

\* handleExportProject after its await
handleExportProjectDone(w, req, r) ==
  LET w0 == Base(w, req, r)
      w1 == IF r.threw
            THEN setError(w0, Some(AppError("EXPORT_PROJECT_ERROR", r.message)))
            ELSE setSuccess(w0, Some("Project exported successfully!"))
  IN  setLoading(w1, FALSE)

(***************************************************************************)
(* pages/EditorPage.tsx (in DashboardPage.tsx): EditorPage.                *)
(***************************************************************************)
\* the texts a user types into the script field
Scripts == { <<>>, <<" ">>, <<"a">> }

loadProjectDone_KeepLoading(w, req, r) ==
  LET w0 == Base(w, req, r)
  IN  IF r.threw
      THEN setError(w0, Some(AppError("LOAD_PROJECT_ERROR", r.message)))
      ELSE LET project == Get(r.value)
               w2 == setCurrentProject(w0, Some(project))
           IN  IF ~req.live THEN w2
               ELSE [w2 EXCEPT
                       !.editor.scriptContent = project.scriptContent,
                       !.editor.storyboard =
                         IF IsSome(project.storyboardData)
                         THEN Get(project.storyboardData) ELSE @]

\* after the await of loadProject
loadProjectDone(w, req, r) ==
  LET w0 == Base(w, req, r)
      w1 == IF r.threw
            THEN setError(w0, Some(AppError("LOAD_PROJECT_ERROR", r.message)))
            ELSE LET project == Get(r.value)
                     w2 == setCurrentProject(w0, Some(project))
                 IN  IF ~req.live THEN w2
                     ELSE [w2 EXCEPT
                             !.editor.scriptContent = project.scriptContent,
                             !.editor.storyboard =
                               IF IsSome(project.storyboardData)
                               THEN Get(project.storyboardData) ELSE @]
  IN  setLoading(w1, FALSE)

\* handleSaveProject up to its await
handleSaveProject(w) ==
  IF ~IsSome(w.currentProject) THEN w
  ELSE Send(setLoading(w, TRUE),
            Request(w, "updateProject", "editor", Get(w.currentProject).id,
                    CurrentId(w), <<>>))

\* handleSaveProject after its await: updateProject is the one of the render that
\* started the save
handleSaveProjectDone_NoFinally(w, req, r) ==
  LET w0 == Base(w, req, r)
  IN  IF r.threw
      THEN setError(w0, Some(AppError("SAVE_PROJECT_ERROR", r.message)))
      ELSE setLoading(setSuccess(updateProject(w0, req.closureCurrent, Get(r.value)),
                                 Some("Project saved successfully!")),
                      FALSE)

handleSaveProjectDone(w, req, r) ==
  LET w0 == Base(w, req, r)
      w1 == IF r.threw
            THEN setError(w0, Some(AppError("SAVE_PROJECT_ERROR", r.message)))
            ELSE setSuccess(updateProject(w0, req.closureCurrent, Get(r.value)),
                            Some("Project saved successfully!"))
  IN  setLoading(w1, FALSE)

\* `Generated ${response.storyboard.length} scenes in ${response.processingTime}ms`
GeneratedMessage(storyboard) ==
  CASE Len(storyboard) = 0 -> "Generated 0 scenes"
    [] Len(storyboard) = 1 -> "Generated 1 scenes"
    [] OTHER -> "Generated 2 scenes"

handleConvertScript_NoGuard(w) ==
  Send([w EXCEPT !.editor.isConverting = TRUE],
       Request(w, "convertScript", "editor",
               IF IsSome(w.currentProject) THEN Get(w.currentProject).id ELSE 0,
               None, <<>>))

\* handleConvertScript up to its await
handleConvertScript(w) ==
  IF ~IsSome(w.currentProject) \/ Trim(w.editor.scriptContent) = <<>>
  THEN setError(w, Some(AppError("CONVERT_ERROR",
                                 "Please enter a script before converting")))
  ELSE Send([w EXCEPT !.editor.isConverting = TRUE],
            Request(w, "convertScript", "editor", Get(w.currentProject).id, None, <<>>))

handleConvertScriptDone_ClearOnFailure(w, req, r) ==
  LET w0 == Base(w, req, r)
      w1 == IF r.threw
            THEN setError(IF req.live THEN [w0 EXCEPT !.editor.storyboard = <<>>] ELSE w0,
                          Some(AppError("CONVERT_ERROR", r.message)))
            ELSE setSuccess(
                   IF req.live
                   THEN [w0 EXCEPT !.editor.storyboard = Get(r.value).storyboard]
                   ELSE w0,
                   Some(GeneratedMessage(Get(r.value).storyboard)))
  IN  IF req.live THEN [w1 EXCEPT !.editor.isConverting = FALSE] ELSE w1

handleConvertScriptDone_NoFinally(w, req, r) ==
  LET w0 == Base(w, req, r)
  IN  IF r.threw
      THEN setError(w0, Some(AppError("CONVERT_ERROR", r.message)))
      ELSE LET w1 == setSuccess(
                       IF req.live
                       THEN [w0 EXCEPT !.editor.storyboard = Get(r.value).storyboard]
                       ELSE w0,
                       Some(GeneratedMessage(Get(r.value).storyboard)))
           IN  IF req.live THEN [w1 EXCEPT !.editor.isConverting = FALSE] ELSE w1

\* handleConvertScript after its await
handleConvertScriptDone(w, req, r) ==
  LET w0 == Base(w, req, r)
      w1 == IF r.threw
            THEN setError(w0, Some(AppError("CONVERT_ERROR", r.message)))
            ELSE setSuccess(
                   IF req.live
                   THEN [w0 EXCEPT !.editor.storyboard = Get(r.value).storyboard]
                   ELSE w0,
                   Some(GeneratedMessage(Get(r.value).storyboard)))
  IN  IF req.live THEN [w1 EXCEPT !.editor.isConverting = FALSE] ELSE w1

\* handleExport('pdf') up to its await
handleExport(w) ==
  IF ~IsSome(w.currentProject) THEN w
  ELSE Send(setLoading(w, TRUE),
            Request(w, "exportProject", "editor", Get(w.currentProject).id, None, <<>>))

\* handleExport after its await
handleExportDone(w, req, r) ==
  LET w0 == Base(w, req, r)
      w1 == IF r.threw
            THEN setError(w0, Some(AppError("EXPORT_ERROR", r.message)))
            ELSE setSuccess(w0, Some("Exported as PDF successfully!"))
  IN  setLoading(w1, FALSE)

\* a dropped file: its name and its content read as text
File(name, text) == [name |-> name, text |-> text]

Files == { File("s.txt", <<"a">>), File("t.txt", <<"b">>) }

FileUpload(file, progress, status, error) ==
  [file |-> file, progress |-> progress, status |-> status, error |-> error]

\* handleFileUpload([file]) up to its await
handleFileUpload(w, file) ==
  Send([setUploadProgress(w, 0) EXCEPT
          !.editor.fileUpload = Some(FileUpload(file, 0, "uploading", None))],
       [Request(w, "uploadFile", "editor",
                IF IsSome(w.currentProject) THEN Get(w.currentProject).id ELSE 0,
                None, <<>>) EXCEPT
          !.file = Some(file)])

\* handleFileUpload after its await: reader.readAsText(file) when the upload
\* succeeded, the catch block when it failed
handleFileUploadDone(w, req, r) ==
  LET w0 == Base(w, req, r)
  IN  IF r.threw
      THEN setError(
             IF req.live
             THEN [w0 EXCEPT !.editor.fileUpload =
                     Some(FileUpload(Get(req.file), 0, "error", Some(r.message)))]
             ELSE w0,
             Some(AppError("UPLOAD_ERROR", r.message)))
      ELSE Send(w0, [req EXCEPT !.kind = "readAsText"])

readerOnload_NoContent(w, req) ==
  LET w0 == [w EXCEPT !.pending = @ \ {req}]
      w1 == IF req.live
            THEN [w0 EXCEPT !.editor.fileUpload =
                    Some(FileUpload(Get(req.file), 100, "success", None))]
            ELSE w0
  IN  setSuccess(setUploadProgress(w1, 100),
                 Some("File uploaded and content loaded successfully!"))

\* reader.onload
readerOnload(w, req) ==
  LET w0 == [w EXCEPT !.pending = @ \ {req}]
      w1 == IF req.live
            THEN [w0 EXCEPT !.editor.scriptContent = Get(req.file).text,
                            !.editor.fileUpload =
                              Some(FileUpload(Get(req.file), 100, "success", None))]
            ELSE w0
  IN  setSuccess(setUploadProgress(w1, 100),
                 Some("File uploaded and content loaded successfully!"))


(***************************************************************************)
(* The actions.                                                            *)
(***************************************************************************)
\* the variables hold the page state w
Start(w) ==
  /\ localStorage = w.localStorage
  /\ hrefAssigned = w.hrefAssigned
  /\ location = w.location
  /\ user = w.user
  /\ isLoading = w.isLoading
  /\ uiState = w.uiState
  /\ currentProject = w.currentProject
  /\ projects = w.projects
  /\ uploadProgress = w.uploadProgress
  /\ dashboard = w.dashboard
  /\ editor = w.editor
  /\ authPage = w.authPage
  /\ pending = w.pending

\* the application is opened at /dashboard in a browser that holds no token
Init == lastCall = None /\ Start(Boot(EmptyStorage, Loc("dashboard", 0)))

\* the page state once the session of a persisted token has been restored at loc
SignedIn(loc) ==
  LET w0 == Boot(setToken(EmptyStorage, "t1"), loc)
      req == CHOOSE q \in w0.pending : q.kind = "getProfile"
      r == Api_getProfile(w0.localStorage, Envelope(TRUE, Some("u1"), None))
  IN  Render(w0, Auth_restore(Base(w0, req, r), r))

\* a handler followed by React's commit
Step(w) == Commit(Render(World, w)) /\ UNCHANGED lastCall

\* the page load that window.location.href = '/login' started completes
LoginPageLoads ==
  /\ hrefAssigned
  /\ Commit(Boot(localStorage, Loc("login", 0)))
  /\ UNCHANGED lastCall

\* the user reloads the page, or opens the application at a URL
Reload(loc) ==
  /\ Commit(Boot(localStorage, loc))
  /\ UNCHANGED lastCall

\* the user follows a link, or goes back or forward in the history
Navigate(loc) ==
  /\ loc # location
  /\ Step(navigate(World, loc))

SubmitLogin(form) ==
  /\ ViewOf(World) = "login"
  /\ ~authPage.isLoading
  /\ Step(handleSubmit(World, "login", LoginErrors(form)))

SubmitRegister(form) ==
  /\ ViewOf(World) = "register"
  /\ ~authPage.isLoading
  /\ Step(handleSubmit(World, "register", RegisterErrors(form)))

ResolveAuth(req, resp) ==
  /\ req \in pending
  /\ req.kind \in {"login", "register"}
  /\ Step(handleSubmitDone(World, req, ApiCall(req.kind, localStorage, resp)))

ResolveRestore(req, resp) ==
  /\ req \in pending
  /\ req.kind = "getProfile"
  /\ Step(Auth_restore(Base(World, req, Api_getProfile(localStorage, resp)),
                       Api_getProfile(localStorage, resp)))

Logout ==
  /\ ViewOf(World) \in {"dashboard", "editor"}
  /\ IsSome(user)
  /\ Step(handleLogout(World))

ResolveLogout(req, resp) ==
  /\ req \in pending
  /\ req.kind = "logout"
  /\ Step(handleLogoutDone(World, req, Api_logout(localStorage, resp)))

\* the Alert's onClose of both pages
DismissError ==
  /\ ViewOf(World) \in {"dashboard", "editor"}
  /\ IsSome(uiState.error)
  /\ Step(setError(World, None))

DismissSuccess ==
  /\ ViewOf(World) \in {"dashboard", "editor"}
  /\ IsSome(uiState.success)
  /\ Step(setSuccess(World, None))

ResolveLoadProjects(req, resp) ==
  /\ req \in pending
  /\ req.kind = "getProjects"
  /\ Step(loadProjectsDone(World, req, Api_getProjects(localStorage, resp)))

\* the create forms a user submits: the name, and the length of the description
CreateForm(name, descriptionLength) ==
  [name |-> name, descriptionLength |-> descriptionLength]

CreateForms ==
  { CreateForm(<<>>, 0), CreateForm(<<" ", " ", " ">>, 0), CreateForm(<<"a", "b">>, 0),
    CreateForm(<<" ", "a">>, 501), CreateForm(<<"a", "b", "c">>, 501),
    CreateForm(<<"a", "b", "c">>, 500) }

\* the submit button is disabled while uiState.isLoading
SubmitCreate(name, descriptionLength) ==
  /\ ViewOf(World) = "dashboard"
  /\ ~uiState.isLoading
  /\ Step(handleCreateProject(World, name, descriptionLength))

ResolveCreate(req, resp) ==
  /\ req \in pending
  /\ req.kind = "createProject"
  /\ Step(handleCreateProjectDone(World, req, Api_createProject(localStorage, resp)))

\* the grid of projects is rendered when uiState.isLoading is false
GridShown == ViewOf(World) = "dashboard" /\ ~uiState.isLoading

\* the Delete entry of a project's menu
SelectForDelete(i) ==
  /\ GridShown
  /\ i \in 1..Len(projects)
  /\ Step([World EXCEPT !.dashboard.selectedProject = Some(projects[i]),
                        !.dashboard.isDeleteModalOpen = TRUE])

\* the delete modal's Cancel
CancelDelete ==
  /\ ViewOf(World) = "dashboard"
  /\ dashboard.isDeleteModalOpen
  /\ Step([World EXCEPT !.dashboard.isDeleteModalOpen = FALSE])

\* the delete modal's button, disabled while uiState.isLoading
ConfirmDelete ==
  /\ ViewOf(World) = "dashboard"
  /\ dashboard.isDeleteModalOpen
  /\ ~uiState.isLoading
  /\ Step(handleDeleteProject(World))

ResolveDelete(req, resp) ==
  /\ req \in pending
  /\ req.kind = "deleteProject"
  /\ Step(handleDeleteProjectDone(World, req, Api_deleteProject(localStorage, resp)))

\* the Export entry of a project's menu
ExportFromDashboard(i) ==
  /\ GridShown
  /\ i \in 1..Len(projects)
  /\ Step(handleExportProject(World, projects[i]))

ResolveExport(req, resp) ==
  /\ req \in pending
  /\ req.kind = "exportProject"
  /\ LET r == Api_exportProject(localStorage, resp)
     IN  Step(IF req.page = "dashboard"
              THEN handleExportProjectDone(World, req, r)
              ELSE handleExportDone(World, req, r))

ResolveLoadProject(req, resp) ==
  /\ req \in pending
  /\ req.kind = "getProject"
  /\ Step(loadProjectDone(World, req, Api_getProject(localStorage, resp)))

\* the script field's onChange
EditScript(text) ==
  /\ ViewOf(World) = "editor"
  /\ text # editor.scriptContent
  /\ Step([World EXCEPT !.editor.scriptContent = text])

\* the Save button is rendered when there is a current project and is disabled
\* while uiState.isLoading
SaveProject ==
  /\ ViewOf(World) = "editor"
  /\ IsSome(currentProject)
  /\ ~uiState.isLoading
  /\ Step(handleSaveProject(World))

ResolveSave(req, resp) ==
  /\ req \in pending
  /\ req.kind = "updateProject"
  /\ Step(handleSaveProjectDone(World, req, Api_updateProject(localStorage, resp)))

\* the Generate button is disabled while converting and while the script is blank
ConvertScript ==
  /\ ViewOf(World) = "editor"
  /\ ~editor.isConverting
  /\ Trim(editor.scriptContent) # <<>>
  /\ Step(handleConvertScript(World))

ResolveConvert(req, resp) ==
  /\ req \in pending
  /\ req.kind = "convertScript"
  /\ Step(handleConvertScriptDone(World, req, Api_convertScript(localStorage, resp)))

\* the Export button is disabled while there is no scene, the modal's buttons
\* while uiState.isLoading
ExportFromEditor ==
  /\ ViewOf(World) = "editor"
  /\ editor.storyboard # <<>>
  /\ ~uiState.isLoading
  /\ IsSome(currentProject)
  /\ Step(handleExport(World))

\* a file is dropped on the editor's drop zone
DropFile(file) ==
  /\ ViewOf(World) = "editor"
  /\ Step(handleFileUpload(World, file))

ResolveUpload(req, resp) ==
  /\ req \in pending
  /\ req.kind = "uploadFile"
  /\ Step(handleFileUploadDone(World, req, Api_uploadFile(localStorage, resp)))

\* the FileReader has read the file
FileLoads(req) ==
  /\ req \in pending
  /\ req.kind = "readAsText"
  /\ Step(readerOnload(World, req))

\* the FileReader could not read the file: it fires error, for which the handler
\* registers no listener
FileReadFails(req) ==
  /\ req \in pending
  /\ req.kind = "readAsText"
  /\ Step([World EXCEPT !.pending = @ \ {req}])

(***************************************************************************)
(* The session: the authentication pages, the restoration, logout and the  *)
(* route guards.                                                           *)
(***************************************************************************)
NextSession ==
  \/ LoginPageLoads
  \/ \E loc \in Locations : Reload(loc)
  \/ \E loc \in Locations : Navigate(loc)
  \/ \E form \in LoginForms : SubmitLogin(form)
  \/ \E form \in RegisterForms : SubmitRegister(form)
  \/ \E req \in pending : \E resp \in Responses(World, req) : ResolveAuth(req, resp)
  \/ \E req \in pending : \E resp \in Responses(World, req) : ResolveRestore(req, resp)
  \/ Logout
  \/ \E req \in pending : \E resp \in Responses(World, req) : ResolveLogout(req, resp)
  \/ \E req \in pending : \E resp \in Responses(World, req) : ResolveLoadProjects(req, resp)
  \/ \E req \in pending : \E resp \in Responses(World, req) : ResolveLoadProject(req, resp)

SpecSession == Init /\ [][NextSession]_vars

(***************************************************************************)
(* The dashboard of a signed-in user who stays on it.                      *)
(***************************************************************************)
InitDashboard == lastCall = None /\ Start(SignedIn(Loc("dashboard", 0)))

NextDashboard ==
  \/ LoginPageLoads
  \/ DismissError
  \/ DismissSuccess
  \/ \E req \in pending : \E resp \in Responses(World, req) : ResolveLoadProjects(req, resp)
  \/ \E form \in CreateForms : SubmitCreate(form.name, form.descriptionLength)
  \/ \E req \in pending : \E resp \in Responses(World, req) : ResolveCreate(req, resp)
  \/ \E i \in 1..Cardinality(ProjectIds) : SelectForDelete(i)
  \/ CancelDelete
  \/ ConfirmDelete
  \/ \E req \in pending : \E resp \in Responses(World, req) : ResolveDelete(req, resp)
  \/ \E i \in 1..Cardinality(ProjectIds) : ExportFromDashboard(i)
  \/ \E req \in pending : \E resp \in Responses(World, req) : ResolveExport(req, resp)

SpecDashboard == InitDashboard /\ [][NextDashboard]_vars

(***************************************************************************)
(* A signed-in user who moves between the dashboard and the editor by the  *)
(* sidebar's links and the project cards, and deletes projects.            *)
(***************************************************************************)
WorkspaceLocations == { loc \in Locations : Protected(loc) }

NextWorkspace ==
  \/ LoginPageLoads
  \/ \E loc \in WorkspaceLocations : Navigate(loc)
  \/ \E req \in pending : \E resp \in Responses(World, req) : ResolveLoadProjects(req, resp)
  \/ \E req \in pending : \E resp \in Responses(World, req) : ResolveLoadProject(req, resp)
  \/ \E i \in 1..Cardinality(ProjectIds) : SelectForDelete(i)
  \/ CancelDelete
  \/ ConfirmDelete
  \/ \E req \in pending : \E resp \in Responses(World, req) : ResolveDelete(req, resp)

SpecWorkspace == InitDashboard /\ [][NextWorkspace]_vars

(***************************************************************************)
(* The editor of a signed-in user.                                         *)
(***************************************************************************)
InitEditor == lastCall = None /\ Start(SignedIn(Loc("editor", 0)))

NextEditor ==
  \/ LoginPageLoads
  \/ \E loc \in WorkspaceLocations : Navigate(loc)
  \/ \E req \in pending : \E resp \in Responses(World, req) : ResolveLoadProjects(req, resp)
  \/ \E req \in pending : \E resp \in Responses(World, req) : ResolveLoadProject(req, resp)
  \/ \E text \in Scripts : EditScript(text)
  \/ SaveProject
  \/ \E req \in pending : \E resp \in Responses(World, req) : ResolveSave(req, resp)

SpecEditor == InitEditor /\ [][NextEditor]_vars

(***************************************************************************)
(* Creating projects while the dashboard is left for the editor and opened  *)
(* again.                                                                  *)
(***************************************************************************)
NextCreate ==
  \/ LoginPageLoads
  \/ \E loc \in {Loc("dashboard", 0), Loc("editor", 0)} : Navigate(loc)
  \/ \E req \in pending : \E resp \in Responses(World, req) : ResolveLoadProjects(req, resp)
  \/ \E form \in CreateForms : SubmitCreate(form.name, form.descriptionLength)
  \/ \E req \in pending : \E resp \in Responses(World, req) : ResolveCreate(req, resp)

SpecCreate == InitDashboard /\ [][NextCreate]_vars

(***************************************************************************)
(* The login and register forms, submitted with every combination of valid *)
(* and invalid fields.                                                     *)
(***************************************************************************)
ShortPassword == <<"p", "p", "p", "p", "p">>

\* the login form with each field in turn, and both, invalid
AllLoginForms ==
  { [email |-> GoodEmail, password |-> GoodPassword],
    [email |-> <<>>, password |-> GoodPassword],
    [email |-> <<" ">>, password |-> GoodPassword],
    [email |-> <<"a", "@", "b">>, password |-> GoodPassword],
    [email |-> GoodEmail, password |-> <<>>],
    [email |-> GoodEmail, password |-> ShortPassword],
    [email |-> <<"a", "@", "b">>, password |-> ShortPassword] }

RegisterForm(username, email, password, confirmPassword) ==
  [ username |-> username, email |-> email, password |-> password,
    confirmPassword |-> confirmPassword ]

\* the register form with each field in turn, and all, invalid
AllRegisterForms ==
  { RegisterForm(<<"u", "s", "r">>, GoodEmail, GoodPassword, GoodPassword),
    RegisterForm(<<>>, GoodEmail, GoodPassword, GoodPassword),
    RegisterForm(<<"u", "s">>, GoodEmail, GoodPassword, GoodPassword),
    RegisterForm(<<"u", "s", "r">>, <<>>, GoodPassword, GoodPassword),
    RegisterForm(<<"u", "s", "r">>, <<"a", "@", "b">>, GoodPassword, GoodPassword),
    RegisterForm(<<"u", "s", "r">>, GoodEmail, ShortPassword, ShortPassword),
    RegisterForm(<<"u", "s", "r">>, GoodEmail, GoodPassword, <<>>),
    RegisterForm(<<"u", "s", "r">>, GoodEmail, GoodPassword, ShortPassword),
    RegisterForm(<<"u", "s">>, <<" ">>, <<>>, <<>>) }

NextForms ==
  \/ LoginPageLoads
  \/ \E loc \in {Loc("login", 0), Loc("register", 0)} : Navigate(loc)
  \/ \E form \in AllLoginForms : SubmitLogin(form)
  \/ \E form \in AllRegisterForms : SubmitRegister(form)
  \/ \E req \in pending : \E resp \in Responses(World, req) : ResolveAuth(req, resp)
  \/ \E req \in pending : \E resp \in Responses(World, req) : ResolveLoadProjects(req, resp)

SpecForms == Init /\ [][NextForms]_vars

(***************************************************************************)
(* The conversions of the editor.                                          *)
(***************************************************************************)
NextConvert ==
  \/ LoginPageLoads
  \/ \E loc \in WorkspaceLocations : Navigate(loc)
  \/ \E req \in pending : \E resp \in Responses(World, req) : ResolveLoadProjects(req, resp)
  \/ \E req \in pending : \E resp \in Responses(World, req) : ResolveLoadProject(req, resp)
  \/ \E text \in Scripts : EditScript(text)
  \/ ConvertScript
  \/ \E req \in pending : \E resp \in Responses(World, req) : ResolveConvert(req, resp)

SpecConvert == InitEditor /\ [][NextConvert]_vars

\* the remote calls of the dashboard and of the editor of one project: the loads,
\* the save and the conversion
NextRecovery ==
  \/ LoginPageLoads
  \/ \E loc \in {Loc("dashboard", 0), Loc("editor", 1)} : Navigate(loc)
  \/ \E req \in pending : \E resp \in Responses(World, req) : ResolveLoadProjects(req, resp)
  \/ \E req \in pending : \E resp \in Responses(World, req) : ResolveLoadProject(req, resp)
  \/ \E text \in Scripts : EditScript(text)
  \/ SaveProject
  \/ \E req \in pending : \E resp \in Responses(World, req) : ResolveSave(req, resp)
  \/ ConvertScript
  \/ \E req \in pending : \E resp \in Responses(World, req) : ResolveConvert(req, resp)

SpecRecovery == InitEditor /\ [][NextRecovery]_vars

(***************************************************************************)
(* The file drop of the editor.                                            *)
(***************************************************************************)
\* an upload call that is in flight gets its response
UploadResolves ==
  \E req \in pending : \E resp \in Responses(World, req) : ResolveUpload(req, resp)

\* a file that is being read has been read
FileIsRead == \E req \in pending : FileLoads(req)

NextUpload ==
  \/ LoginPageLoads
  \/ \E text \in Scripts : EditScript(text)
  \/ \E file \in Files : DropFile(file)
  \/ UploadResolves
  \/ FileIsRead
  \/ \E req \in pending : FileReadFails(req)

\* every upload call eventually resolves and every read eventually completes
SpecUpload ==
  InitEditor /\ [][NextUpload]_vars /\ WF_vars(UploadResolves) /\ WF_vars(FileIsRead)

\* a conversion call that is in flight gets its response
ConvertResolves ==
  \E req \in pending : \E resp \in Responses(World, req) : ResolveConvert(req, resp)

\* the conversions of one project, between /editor and /editor/1
NextConvertLive ==
  \/ LoginPageLoads
  \/ \E loc \in {Loc("editor", 0), Loc("editor", 1)} : Navigate(loc)
  \/ \E req \in pending : \E resp \in Responses(World, req) : ResolveLoadProject(req, resp)
  \/ \E text \in Scripts : EditScript(text)
  \/ ConvertScript
  \/ ConvertResolves

\* every conversion call eventually resolves
SpecConvertLive == InitEditor /\ [][NextConvertLive]_vars /\ WF_vars(ConvertResolves)

(***************************************************************************)
(* The application state container on its own: its operations called in   *)
(* any order with any argument, each from the render that is current.      *)
(***************************************************************************)
\* the arguments of setError and of setSuccess
StoreErrors ==
  {None} \cup { Some(AppError(c, m)) : c \in {"E1", "E2"}, m \in {"X", "Y"} }

StoreMessages == { None, Some(""), Some("saved"), Some("deleted") }

StoreSetLoading(loading) == Step(setLoading(World, loading))

StoreSetError(error) == Step(setError(World, error))

StoreSetSuccess(message) == Step(setSuccess(World, message))

StoreClearMessages == Step(clearMessages(World))

StoreSetProjects(list) == Step(setProjects(World, list))

StoreSetCurrentProject(project) == Step(setCurrentProject(World, project))

StoreUpdateProject(project) == Step(updateProject(World, CurrentId(World), project))

StoreRemoveProject(projectId) == Step(removeProject(World, CurrentId(World), projectId))

NextStore ==
  \/ \E loading \in BOOLEAN : StoreSetLoading(loading)
  \/ \E error \in StoreErrors : StoreSetError(error)
  \/ \E message \in StoreMessages : StoreSetSuccess(message)
  \/ StoreClearMessages
  \/ \E list \in ProjectLists : StoreSetProjects(list)
  \/ \E project \in {None} \cup { Some(q) : q \in ProjectValues } :
       StoreSetCurrentProject(project)
  \/ \E project \in ProjectValues : StoreUpdateProject(project)
  \/ \E projectId \in ProjectIds : StoreRemoveProject(projectId)

SpecStore == InitDashboard /\ [][NextStore]_vars

(***************************************************************************)
(* clearCache, applied to a local storage that holds the token and any of  *)
(* the other items of the origin.                                          *)
(***************************************************************************)
\* the theme, keys with the prefix cache_ (the prefix itself among them), and keys
\* that only resemble them
StorageKeys ==
  { THEME,
    <<"c", "a", "c", "h", "e", "_">>,
    <<"c", "a", "c", "h", "e", "_", "a">>,
    <<"c", "a", "c", "h", "e">>,
    <<"x", "c", "a", "c", "h", "e", "_", "a">>,
    <<"C", "a", "c", "h", "e", "_", "a">> }

\* the storage of a signed-in user with the items of keys added
StorageWith(ls, keys) ==
  [k \in DOMAIN ls \cup keys |->
     IF k \in DOMAIN ls THEN ls[k] ELSE IF k = THEME THEN "dark" ELSE "item"]

InitCache ==
  /\ lastCall = None
  /\ \E keys \in SUBSET StorageKeys :
       Start([SignedIn(Loc("dashboard", 0)) EXCEPT
                !.localStorage = StorageWith(@, keys)])

\* clearCache is called; lastCall records the storage it was called with
StoreClearCache ==
  /\ Commit(Render(World, clearCache(World)))
  /\ lastCall' = Some([op |-> "AppProvider.clearCache", ls |-> localStorage])

NextCache ==
  \/ StoreClearCache
  \/ \E loading \in BOOLEAN : StoreSetLoading(loading)
  \/ \E error \in StoreErrors : StoreSetError(error)
  \/ \E message \in StoreMessages : StoreSetSuccess(message)

SpecCache == InitCache /\ [][NextCache]_vars

(***************************************************************************)
(* The resource client on its own: each operation applied to every         *)
(* response its request may get.                                           *)
(***************************************************************************)
\* the data an envelope may carry for an operation
DataOf(op) ==
  CASE op \in {"login", "register"} -> AuthResponses
    [] op = "getProfile" -> Users
    [] op = "getProjects" -> ProjectLists
    [] op \in {"getProject", "createProject", "updateProject"} -> ProjectValues
    [] op = "convertScript" -> ConversionResponses
    [] op \in {"getStoryboard", "updateStoryboard"} -> { <<>>, <<"sc1">> }
    [] op = "uploadFile" -> { [id |-> "f1", filename |-> "s.txt"] }
    [] op = "exportProject" -> { ExportData }
    [] OTHER -> {}

ApiResponses(op) ==
  { Envelope(success, data, message) :
      success \in BOOLEAN,
      data \in {None} \cup { Some(d) : d \in DataOf(op) },
      message \in { None, Some(""), Some("X") } }
    \cup { NetworkError, HttpError(UNAUTHORIZED), HttpError(500) }

ApiInvoke(op, resp) ==
  LET r == ApiCall(op, localStorage, resp)
  IN  /\ lastCall' = Some([op |-> op, header |-> RequestInterceptor(localStorage),
                            resp |-> resp, ls |-> localStorage, result |-> r])
      /\ localStorage' = r.ls
      /\ hrefAssigned' = (hrefAssigned \/ r.href)
      /\ UNCHANGED << location, user, isLoading, uiState, currentProject, projects,
                      uploadProgress, dashboard, editor, authPage, pending >>

NextApi ==
  \/ \E op \in ApiOperations \cup {"logout"} : \E resp \in ApiResponses(op) :
       ApiInvoke(op, resp)
  \/ LoginPageLoads

SpecApi == Init /\ [][NextApi]_vars

(***************************************************************************)
(* The whole application.                                                  *)
(***************************************************************************)
Next ==
  \/ NextSession
  \/ NextDashboard
  \/ NextWorkspace
  \/ NextEditor
  \/ NextConvert
  \/ ExportFromEditor

Spec == Init /\ [][Next]_vars



(***************************************************************************)
(* The properties.                                                         *)
(***************************************************************************)
Token == getToken(localStorage)

\* the response is a success envelope that carries data
Succeeds(resp) == resp.status = Some(200) /\ resp.success /\ IsSome(resp.data)

\* the requests of a kind that are in flight
Pending(kind) == { req \in pending : req.kind = kind }

\* C1: under any sequence of setLoading, setError, setSuccess and clearMessages (and
\* of the other operations of the container), uiState.error and uiState.success are
\* never both set; setError(e) with a non-null e sets the error to e and leaves
\* success unset, and setSuccess(m) with a non-empty m sets success to m and leaves
\* the error unset.
C1_ErrorSuccessExclusive ==
  [][ /\ ~(IsSome(uiState'.error) /\ IsSome(uiState'.success))
      /\ \A e \in StoreErrors \ {None} :
           StoreSetError(e) => uiState'.error = e /\ uiState'.success = None
      /\ \A m \in StoreMessages \ {None, Some("")} :
           StoreSetSuccess(m) => uiState'.success = m /\ uiState'.error = None ]_vars

\* setError has set an error while loading, and no success is set
C1_Witness ==
  /\ uiState.error = Some(AppError("E2", "Y"))
  /\ uiState.success = None
  /\ uiState.isLoading

\* C2: when a save's updateProject(p) is applied, the active project becomes p if the
\* active project at that time has id p.id, and is unchanged if it is null or has
\* another id.
C2_UpdateProjectActive ==
  [][ \A req \in Pending("updateProject") : \A resp \in Responses(World, req) :
        (Succeeds(resp) /\ ResolveSave(req, resp)) =>
          currentProject' = IF CurrentId(World) = Some(Get(resp.data).id)
                            THEN resp.data
                            ELSE currentProject ]_vars

\* C3: when a delete's removeProject(id) is applied, the active project becomes null
\* if it has that id and is unchanged otherwise, and no project with that id remains
\* in the projects list.
C3_RemoveProjectActive ==
  [][ \A req \in Pending("deleteProject") : \A resp \in Responses(World, req) :
        (resp.status = Some(200) /\ resp.success /\ ResolveDelete(req, resp)) =>
          /\ currentProject' = IF CurrentId(World) = Some(req.id)
                               THEN None
                               ELSE currentProject
          /\ req.id \notin Ids(projects') ]_vars

\* the default message the claim ascribes to each operation; getProjects has none
\* in the code
C4_DefaultMessage(op) ==
  CASE op = "login" -> "Login failed"
    [] op = "register" -> "Registration failed"
    [] op = "getProfile" -> "Failed to get profile"
    [] op = "getProjects" -> "Failed to get projects"
    [] op = "getProject" -> "Failed to get project"
    [] op = "createProject" -> "Failed to create project"
    [] op = "updateProject" -> "Failed to update project"
    [] op = "deleteProject" -> "Failed to delete project"
    [] op = "convertScript" -> "Failed to convert script"
    [] op = "getStoryboard" -> "Failed to get storyboard"
    [] op = "updateStoryboard" -> "Failed to update storyboard"
    [] op = "uploadFile" -> "Failed to upload file"
    [] op = "exportProject" -> "Failed to export project"
    [] op = "clearCache" -> "Failed to clear cache"

\* C4: every operation of the resource client that gets an envelope with
\* success=false fails: with the message "X" if the envelope carries it, with the
\* operation's default message if it carries none.
C4_FailureEnvelopeFails ==
  \A call \in { c \in {lastCall} : IsSome(c) } :
    LET c == Get(call)
    IN  (/\ c.op \in ApiOperations
         /\ c.resp.status = Some(200)
         /\ ~c.resp.success
         /\ c.resp.message \in {None, Some("X")}) =>
          /\ c.result.threw
          /\ c.result.message = IF c.resp.message = Some("X") THEN "X"
                                ELSE C4_DefaultMessage(c.op)


\* a continuation of the session's requests runs for the response resp of req
C5_Resolves(req, resp) ==
  \/ ResolveAuth(req, resp)
  \/ ResolveRestore(req, resp)
  \/ ResolveLogout(req, resp)
  \/ ResolveLoadProjects(req, resp)
  \/ ResolveLoadProject(req, resp)

\* C5 (amended): whenever a request, of whichever operation, gets a response with
\* status 401, the persisted token is removed and the navigation to /login is forced;
\* once that navigation has loaded the page, and for as long as no token is persisted
\* (a successful login or register persists one), there is no identity, so
\* isAuthenticated is false.
C5_UnauthorizedEndsSession ==
  [][ /\ \A req \in pending :
           C5_Resolves(req, HttpError(UNAUTHORIZED)) => Token' = None /\ hrefAssigned'
      /\ (Token' = None /\ ~hrefAssigned') => user' = None ]_vars

\* a 401 has been handled in a page whose user is signed in: the token is gone, the
\* navigation is under way
C5_Witness == hrefAssigned /\ Token = None /\ IsSome(user) /\ pending = {}

\* C5 as stated: a response with status 401 removes the token, forces the navigation
\* and leaves isAuthenticated false from that moment on.
C5_UnauthorizedClearsIdentity ==
  [][ \A req \in pending :
        C5_Resolves(req, HttpError(UNAUTHORIZED)) =>
          Token' = None /\ hrefAssigned' /\ user' = None ]_vars

\* C6: a conversion that succeeds, in an editor that is still mounted, sets the
\* displayed scene list to exactly the returned storyboard; one that fails leaves the
\* displayed scene list as it was and sets the error.
C6_ConversionResult ==
  [][ \A req \in Pending("convertScript") : \A resp \in Responses(World, req) :
        (req.live /\ ResolveConvert(req, resp)) =>
          IF Succeeds(resp)
          THEN editor'.storyboard = Get(resp.data).storyboard
          ELSE /\ editor'.storyboard = editor.storyboard
               /\ IsSome(uiState'.error)
               /\ Get(uiState'.error).code = "CONVERT_ERROR"
               /\ uiState'.success = None ]_vars

\* a conversion has failed while the scenes of an earlier conversion are displayed
C6_Witness ==
  /\ editor.storyboard = <<"sc2", "sc3">>
  /\ IsSome(uiState.error)
  /\ Get(uiState.error).code = "CONVERT_ERROR"

\* C7: submitting the create form with a name of fewer than 3 characters sets an
\* error on the name field, sends no request, and leaves the projects list and
\* uiState unchanged.
C7_ShortNameRejected ==
  [][ \A form \in CreateForms :
        (SubmitCreate(form.name, form.descriptionLength) /\ Len(form.name) < 3) =>
          /\ "name" \in DOMAIN dashboard'.createErrors
          /\ pending' = pending
          /\ projects' = projects
          /\ uiState' = uiState ]_vars

\* a name of two characters has been rejected, with a list loaded and nothing in flight
C7_Witness ==
  /\ "name" \in DOMAIN dashboard.createErrors
  /\ dashboard.createErrors.name = "Project name must be at least 3 characters"
  /\ projects # <<>>
  /\ pending = {}

\* C8: a successful login sets the identity and persists the returned token; a logout
\* leaves neither; and from then on a protected route is never shown to a visitor
\* without identity: the guard shows the spinner while the session is being restored
\* and has navigated to /login otherwise.
C8_LoginLogoutRedirect ==
  [][ /\ \A req \in Pending("login") : \A resp \in Responses(World, req) :
           (Succeeds(resp) /\ ResolveAuth(req, resp)) =>
             user' = Some(Get(resp.data).user) /\ Token' = Some(Get(resp.data).token)
      /\ \A req \in Pending("logout") : \A resp \in Responses(World, req) :
           (resp.status = Some(200) /\ ResolveLogout(req, resp)) =>
             user' = None /\ Token' = None
      /\ (user' = None /\ Protected(location')) =>
           (isLoading' /\ ViewOf(World)' = "loading") ]_vars

\* after a login, a loaded dashboard and a logout: no identity, no token, at /login
C8_Witness ==
  /\ user = None
  /\ Token = None
  /\ projects # <<>>
  /\ location = Loc("login", 0)
  /\ ~hrefAssigned

\* C9: logout removes the persisted token and clears the identity whatever the remote
\* call does: a success, a failure envelope, a network failure or a 401.
C9_LogoutAlwaysClears ==
  [][ \A req \in Pending("logout") : \A resp \in Responses(World, req) :
        ResolveLogout(req, resp) => Token' = None /\ user' = None ]_vars

\* a logout was answered 401 after the dashboard's list had loaded
C9_Witness ==
  /\ hrefAssigned
  /\ user = None
  /\ Token = None
  /\ projects # <<>>
  /\ location = Loc("login", 0)

\* the last call made on its own was a login or a register
C10_AuthCalls == { c \in {lastCall} : IsSome(c) /\ Get(c).op \in {"login", "register"} }

\* C10 (amended): login and register persist the returned token exactly when the
\* response is a success envelope carrying data; every other response makes them
\* throw, and leaves the persisted token as it was, except a response with status
\* 401, which removes it.
C10_TokenOnlyOnSuccess ==
  \A call \in C10_AuthCalls :
    LET c == Get(call)
    IN  IF Succeeds(c.resp)
        THEN ~c.result.threw /\ getToken(c.result.ls) = Some(Get(c.resp.data).token)
        ELSE /\ c.result.threw
             /\ getToken(c.result.ls) =
                  IF c.resp.status = Some(UNAUTHORIZED) THEN None ELSE getToken(c.ls)

\* a login failed by a failure envelope while a token was persisted, which is still there
C10_Witness ==
  \E call \in C10_AuthCalls :
    /\ ~Get(call).resp.success
    /\ Get(call).resp.status = Some(200)
    /\ IsSome(getToken(Get(call).ls))
    /\ getToken(Get(call).result.ls) = getToken(Get(call).ls)

\* C10 as stated: a login or register that fails leaves the persisted token exactly as
\* it was.
C10_FailureKeepsToken ==
  \A call \in C10_AuthCalls :
    LET c == Get(call)
    IN  IF Succeeds(c.resp)
        THEN ~c.result.threw /\ getToken(c.result.ls) = Some(Get(c.resp.data).token)
        ELSE c.result.threw /\ getToken(c.result.ls) = getToken(c.ls)


\* C11: every request the resource client sends carries Authorization: Bearer <token>
\* with the token persisted when it is sent, and no Authorization header when no
\* token is persisted.
C11_AuthorizationHeader ==
  \A call \in { c \in {lastCall} : IsSome(c) } :
    Get(call).header =
      IF AUTH_TOKEN \in DOMAIN Get(call).ls
      THEN Some([scheme |-> "Bearer", credentials |-> Get(call).ls[AUTH_TOKEN]])
      ELSE None

\* a project request sent with the second token persisted was answered 401
C11_Witness ==
  \E call \in { c \in {lastCall} : IsSome(c) } :
    /\ Get(call).op = "getProject"
    /\ Get(call).header = Some([scheme |-> "Bearer", credentials |-> "t2"])
    /\ Token = None


\* the calls made on their own of the operations that read the envelope; getProjects,
\* which does not (C4), is left aside
C12_Calls ==
  { c \in {lastCall} : IsSome(c) /\ Get(c).op \in ApiOperations \ {"getProjects"} }

\* the message of the envelope, or the operation's default when it has none
C12_Message(c) ==
  IF c.resp.message \in {None, Some("")} THEN C4_DefaultMessage(c.op)
  ELSE Get(c.resp.message)

\* C12 (amended): an operation returns the envelope's data when the envelope has
\* success=true and carries data (deleteProject and clearCache, which return nothing,
\* when it has success=true); it fails with the envelope's message, or its default
\* message when there is none, when success is false or a data-returning operation
\* gets no data; and when the transport rejects the call (no response, or a status
\* outside 2xx) it fails with the transport's own error, not with the server's
\* message or the default.
C12_EnvelopeContract ==
  \A call \in C12_Calls :
    LET c == Get(call)
        void == c.op \in {"deleteProject", "clearCache"}
    IN  IF c.resp.status # Some(200)
        THEN /\ c.result.threw
             /\ c.result.message =
                  CASE c.resp.status = None -> "Network Error"
                    [] c.resp.status = Some(UNAUTHORIZED) ->
                         "Request failed with status code 401"
                    [] OTHER -> "Request failed with status code 500"
        ELSE IF c.resp.success /\ (void \/ IsSome(c.resp.data))
        THEN ~c.result.threw /\ c.result.value = (IF void THEN None ELSE c.resp.data)
        ELSE c.result.threw /\ c.result.message = C12_Message(c)

\* updateProject got a success envelope without data and failed with its default message
C12_Witness ==
  \E call \in C12_Calls :
    /\ Get(call).op = "updateProject"
    /\ Get(call).resp.success
    /\ Get(call).resp.data = None
    /\ Get(call).result.threw
    /\ Get(call).result.message = "Failed to update project"

\* C12 as stated: an operation returns the envelope's data whenever success=true, and
\* fails with the server's message or its default whenever success is false or the
\* call throws.
C12_ReturnsDataOnSuccess ==
  \A call \in C12_Calls :
    LET c == Get(call)
    IN  IF c.resp.status = Some(200) /\ c.resp.success
        THEN ~c.result.threw /\ c.result.value \in {None, c.resp.data}
        ELSE c.result.threw /\ c.result.message = C12_Message(c)


\* C13: every conversion the editor starts eventually leaves the converting state
\* (isConverting is false again), whether the call succeeds or fails, provided the
\* call eventually resolves.
C13_ConversionReturnsToReady ==
  (ViewOf(World) = "editor" /\ editor.isConverting) ~> ~editor.isConverting

\* a conversion failed with the server's message and the editor is ready again
C13_Witness ==
  /\ ViewOf(World) = "editor"
  /\ ~editor.isConverting
  /\ Trim(editor.scriptContent) # <<>>
  /\ uiState.error = Some(AppError("CONVERT_ERROR", "X"))
  /\ Pending("convertScript") = {}


\* the error and success an operation writes when its call returns r: a failure writes
\* its error and no success, a conversion that succeeds its message and no error, and
\* a load that succeeds writes neither field
C14_Written(req, r) ==
  IF r.threw
  THEN [ error |-> Some(AppError(CASE req.kind = "getProjects" -> "LOAD_PROJECTS_ERROR"
                                   [] req.kind = "getProject" -> "LOAD_PROJECT_ERROR"
                                   [] OTHER -> "CONVERT_ERROR",
                                 r.message)),
         success |-> None ]
  ELSE IF req.kind = "convertScript"
       THEN [ error |-> None,
              success |-> Some(GeneratedMessage(Get(r.value).storyboard)) ]
       ELSE [ error |-> uiState.error, success |-> uiState.success ]

\* C14: when page operations overlap, uiState.error and uiState.success hold, after
\* each response, what the operation that just resolved wrote, whatever else is in
\* flight and whatever the order in which the operations were started: the operation
\* that resolves last wins.
C14_LastResolvedWins ==
  [][ \A req \in pending : \A resp \in Responses(World, req) :
        ( /\ req \notin pending'
          /\ \/ ResolveLoadProjects(req, resp)
             \/ ResolveLoadProject(req, resp)
             \/ ResolveConvert(req, resp) )
        => /\ uiState'.error = C14_Written(req, ApiCall(req.kind, localStorage, resp)).error
           /\ uiState'.success =
                C14_Written(req, ApiCall(req.kind, localStorage, resp)).success ]_vars

\* a conversion started in the editor is still in flight on the dashboard, whose load
\* has been rejected and has written its error
C14_Witness ==
  /\ ViewOf(World) = "dashboard"
  /\ \E req \in Pending("convertScript") : ~req.live
  /\ Pending("getProjects") = {}
  /\ uiState.error =
       Some(AppError("LOAD_PROJECTS_ERROR", "Request failed with status code 401"))


\* the response to req is one of the three page calls of the session resolving
C15_Resolves(req, resp) ==
  /\ req \notin pending'
  /\ \/ ResolveAuth(req, resp)
     \/ ResolveLoadProjects(req, resp)
     \/ ResolveLoadProject(req, resp)

\* C15 (amended): every remote call of a page view that fails at the resource client
\* is caught by the view and recorded as a non-empty message: by the dashboard and
\* the editor in uiState.error, by the login and register pages in the page's own
\* error field, uiState.error being left as it was.  A failure envelope in answer
\* to getProjects does not fail at the client (C4) and records nothing.
C15_FailuresRecorded ==
  [][ \A req \in pending : \A resp \in Responses(World, req) :
        LET r == ApiCall(req.kind, localStorage, resp)
        IN  C15_Resolves(req, resp) =>
              IF r.threw
              THEN /\ r.message # ""
                   /\ IF req.kind \in {"login", "register"}
                      THEN /\ uiState'.error = uiState.error
                           /\ req.live => authPage'.error = r.message
                      ELSE uiState'.error =
                             Some(AppError(IF req.kind = "getProjects"
                                           THEN "LOAD_PROJECTS_ERROR"
                                           ELSE "LOAD_PROJECT_ERROR", r.message))
              ELSE uiState'.error = uiState.error ]_vars

\* a login was refused: the form shows the server's message, uiState.error is empty
C15_Witness ==
  /\ ViewOf(World) = "login"
  /\ authPage.error = "X"
  /\ ~authPage.isLoading
  /\ uiState.error = None
  /\ pending = {}

\* C15 as stated: every failure of a remote call started by a page view (failure
\* envelope or transport failure) leaves a message in uiState.error.
C15_FailuresInUiState ==
  [][ \A req \in pending : \A resp \in Responses(World, req) :
        ( /\ resp.status # Some(200) \/ ~resp.success
          /\ C15_Resolves(req, resp) )
        => /\ IsSome(uiState'.error)
           /\ Get(uiState'.error).message # "" ]_vars


\* C16: after a remote call of the dashboard or of the editor has failed the view is
\* interactive again: whenever no request is in flight, uiState.isLoading is false
\* and isConverting is false.
C16_InteractiveWhenIdle ==
  pending = {} => ~uiState.isLoading /\ ~editor.isConverting

\* a save has failed with the server's message, nothing is in flight and the editor
\* is interactive
C16_Witness ==
  /\ ViewOf(World) = "editor"
  /\ uiState.error = Some(AppError("SAVE_PROJECT_ERROR", "X"))
  /\ pending = {}
  /\ ~uiState.isLoading
  /\ ~editor.isConverting


\* the fields of a submitted form that are invalid: an empty or malformed email, a
\* password shorter than 6 characters, and on the register form a username shorter
\* than 3 characters and a missing or mismatching confirmation
C17_InvalidFields(kind, form) ==
  { f \in DOMAIN form :
      CASE f = "email" -> ~MatchesEmail(form.email)
        [] f = "password" -> Len(form.password) < 6
        [] f = "username" -> Len(form.username) < 3
        [] OTHER -> form.confirmPassword = <<>> \/ form.confirmPassword # form.password }

\* C17: submitting the login or the register form with invalid input sets an error
\* for each invalid field, and for no other, and sends no login or register request.
C17_InvalidFormSendsNothing ==
  [][ /\ \A form \in AllLoginForms :
           ( /\ C17_InvalidFields("login", form) # {}
             /\ SubmitLogin(form) )
           => /\ DOMAIN authPage'.errors = C17_InvalidFields("login", form)
              /\ pending' = pending
              /\ ~authPage'.isLoading
      /\ \A form \in AllRegisterForms :
           ( /\ C17_InvalidFields("register", form) # {}
             /\ SubmitRegister(form) )
           => /\ DOMAIN authPage'.errors = C17_InvalidFields("register", form)
              /\ pending' = pending
              /\ ~authPage'.isLoading ]_vars

\* the register form was submitted with a confirmation that does not match, which is
\* its only error, and nothing was sent
C17_Witness ==
  /\ ViewOf(World) = "register"
  /\ DOMAIN authPage.errors = {"confirmPassword"}
  /\ authPage.errors.confirmPassword = "Passwords do not match"
  /\ pending = {}


\* the key starts with the six characters c a c h e _
C18_Cached(key) ==
  /\ Len(key) >= 6
  /\ key[1] = "c" /\ key[2] = "a" /\ key[3] = "c" /\ key[4] = "h" /\ key[5] = "e"
  /\ key[6] = "_"

\* C18: clearCache removes from local storage every key that starts with cache_ and
\* leaves every other key with its value, auth_token and theme among them, and all
\* the in-memory state of the container unchanged.
C18_ClearCacheFrame ==
  [][ StoreClearCache =>
        /\ DOMAIN localStorage' = { k \in DOMAIN localStorage : ~C18_Cached(k) }
        /\ \A k \in DOMAIN localStorage' : localStorage'[k] = localStorage[k]
        /\ AUTH_TOKEN \in DOMAIN localStorage'
        /\ THEME \in DOMAIN localStorage => THEME \in DOMAIN localStorage'
        /\ UNCHANGED << uiState, currentProject, projects, uploadProgress, user,
                        isLoading, location,
                        hrefAssigned, dashboard, editor, authPage, pending >> ]_vars

\* clearCache was called with the theme, two cache_ keys and three keys that only
\* resemble them: the two are gone, the token, the theme and the three are kept
C18_Witness ==
  /\ IsSome(lastCall)
  /\ Get(lastCall).op = "AppProvider.clearCache"
  /\ DOMAIN Get(lastCall).ls = StorageKeys \cup {AUTH_TOKEN}
  /\ Cardinality(DOMAIN localStorage) = 5
  /\ THEME \in DOMAIN localStorage
  /\ IsSome(uiState.error)


\* C19 (amended): a dropped file is uploaded first.  When the upload fails the script
\* field is left as it was and the failure is recorded; when it succeeds the script
\* field is still as it was and the file is being read; and when the file has been
\* read the script field of the editor that took the drop holds the file's text.
C19_ScriptAfterUpload ==
  [][ \A req \in pending :
        /\ \A resp \in Responses(World, req) :
             ( /\ req.kind = "uploadFile"
               /\ ResolveUpload(req, resp) )
             => /\ editor'.scriptContent = editor.scriptContent
                /\ IF resp.status = Some(200) /\ resp.success
                   THEN \E read \in pending' :
                          read.kind = "readAsText" /\ read.file = req.file
                   ELSE /\ IsSome(uiState'.error)
                        /\ Get(uiState'.error).code = "UPLOAD_ERROR"
        /\ ( /\ req.kind = "readAsText"
             /\ FileLoads(req) )
           => /\ req.live => editor'.scriptContent = Get(req.file).text
              /\ uploadProgress' = 100 ]_vars

\* the second file was dropped over a script that differed, was uploaded and read,
\* and the script field holds its text
C19_Witness ==
  /\ ViewOf(World) = "editor"
  /\ editor.fileUpload = Some(FileUpload(File("t.txt", <<"b">>), 100, "success", None))
  /\ editor.scriptContent = <<"b">>
  /\ uploadProgress = 100
  /\ uiState.success = Some("File uploaded and content loaded successfully!")

\* C19 as stated: after a file is dropped on the editor, the script field holds the
\* text of the dropped file.
C19_DroppedFileIsRead ==
  \A file \in Files :
    (editor.fileUpload = Some(FileUpload(file, 0, "uploading", None)))
      ~> (editor.scriptContent = file.text)


\* C20 (amended): a token is stored only in a step that leaves the session
\* authenticated (a login or register that succeeded), and a restored or signed-in
\* session with a token persisted stays authenticated for as long as the token stays
\* and the page is not loaded again; a response with status 401 removes the token.
\* After a page load the token is present while the session is not yet
\* authenticated: the restoration is in progress, and it may fail.
C20_TokenWithSession ==
  [][ /\ (Token' # None /\ Token' # Token) => IsSome(user')
      /\ (Token # None /\ IsSome(user) /\ ~isLoading /\ Token' # None /\ ~isLoading')
           => IsSome(user')
      /\ \A req \in pending :
           ( /\ req \notin pending'
             /\ \/ ResolveAuth(req, HttpError(UNAUTHORIZED))
                \/ ResolveRestore(req, HttpError(UNAUTHORIZED))
                \/ ResolveLoadProjects(req, HttpError(UNAUTHORIZED))
                \/ ResolveLoadProject(req, HttpError(UNAUTHORIZED)) )
           => Token' = None ]_vars

\* a login has stored the second token and the session is authenticated on the
\* dashboard
C20_Witness ==
  /\ Token = Some("t2")
  /\ IsSome(user)
  /\ ~isLoading
  /\ ViewOf(World) = "dashboard"

\* C20 as stated: in every reachable state a token in local storage implies that the
\* session is authenticated.
C20_TokenImpliesAuthenticated == Token # None => IsSome(user)


\* C21: ProtectedRoute and Layout with requireAuth never render their children while
\* isAuthenticated is false: on a protected route they show only the loading
\* indicator while isLoading is true, and with isLoading false and no identity they
\* render nothing and have navigated to /login, so that a protected page is shown
\* only to a visitor with an identity.
C21_GuardHidesChildren ==
  /\ ViewOf(World) \in {"dashboard", "editor"} => IsSome(user) /\ ~isLoading
  /\ (Protected(location) /\ isLoading) => ViewOf(World) = "loading"
  /\ (Protected(location) /\ ~isLoading) => IsSome(user)
  /\ ViewOf(World) # "redirect"
  /\ (~isLoading /\ user = None) => location.name \in {"login", "register"}

\* the page was loaded at /editor/1 with a persisted token: the restoration is in
\* progress, the guard shows the loading indicator and has not navigated
C21_Witness ==
  /\ location = Loc("editor", 1)
  /\ isLoading
  /\ user = None
  /\ Token # None
  /\ ViewOf(World) = "loading"


\* C22: a save response never changes the active project to a project with another
\* id: when the editor has made project B active before the save of project A
\* resolves, the active project is still B afterwards.
C22_SaveKeepsActive ==
  [][ \A req \in Pending("updateProject") : \A resp \in Responses(World, req) :
        ( /\ IsSome(currentProject)
          /\ Succeeds(resp)
          /\ ResolveSave(req, resp) )
        => /\ IsSome(currentProject')
           /\ Get(currentProject').id = Get(currentProject).id ]_vars


\* C23: whenever the editor is open on the route of project X and no load request
\* is in flight, the active project is null or has id X.
C23_ActiveMatchesRoute ==
  ( /\ ViewOf(World) = "editor"
    /\ location.projectId # 0
    /\ Pending("getProject") = {} )
  => \/ currentProject = None
     \/ Get(currentProject).id = location.projectId


\* C24: a successful create-project response only adds the new project to the
\* projects list: every project that is in the list when the response is applied is
\* still in the list afterwards, whatever resolved since the form was submitted.
C24_CreateOnlyAdds ==
  [][ \A req \in Pending("createProject") : \A resp \in Responses(World, req) :
        ( /\ Succeeds(resp)
          /\ ResolveCreate(req, resp) )
        => /\ \A i \in 1..Len(projects) : \E j \in 1..Len(projects') :
                projects'[j] = projects[i]
           /\ \E j \in 1..Len(projects') : projects'[j] = Get(resp.data) ]_vars


\* C25: after a project P is loaded successfully in the editor, the script field
\* equals P.scriptContent and the displayed scene list equals P.storyboardData, or
\* is empty when P has no storyboardData, whatever was displayed before.
C25_LoadShowsProject ==
  [][ \A req \in Pending("getProject") : \A resp \in Responses(World, req) :
        ( /\ req.live
          /\ Succeeds(resp)
          /\ ResolveLoadProject(req, resp) )
        => /\ editor'.scriptContent = Get(resp.data).scriptContent
           /\ editor'.storyboard =
                IF IsSome(Get(resp.data).storyboardData)
                THEN Get(Get(resp.data).storyboardData)
                ELSE <<>> ]_vars


\* the requests in flight whose handler set the loading flag when it sent them
C26_Loading ==
  { req \in pending :
      req.kind \in { "getProjects", "getProject", "createProject", "deleteProject",
                     "exportProject", "updateProject" } }

\* C26 (amended): uiState.isLoading is one flag that holds what was written last.
\* It is true only while a request that set it is in flight, and the response of
\* any such request sets it to false, also when other such requests are still in
\* flight.
C26_LoadingFlagLastWrite ==
  [][ /\ uiState'.isLoading => C26_Loading' # {}
      /\ \A req \in C26_Loading : \A resp \in Responses(World, req) :
           ( /\ req \notin pending'
             /\ \/ ResolveLoadProjects(req, resp)
                \/ ResolveLoadProject(req, resp)
                \/ ResolveSave(req, resp) )
           => ~uiState'.isLoading ]_vars

\* a save is in flight and the loading flag is false: the response of a load that
\* overlapped it has cleared the flag
C26_Witness ==
  /\ ViewOf(World) = "editor"
  /\ Pending("updateProject") # {}
  /\ ~uiState.isLoading

\* C26 as stated: uiState.isLoading is true whenever a request that set the loading
\* flag is still in flight.
C26_LoadingWhileInFlight == C26_Loading # {} => uiState.isLoading


\* C27: every file upload started in the editor eventually leaves the status
\* 'uploading' and ends in 'success' or 'error' (or the page that showed it is gone),
\* when the upload request fails and when reading the file fails.
C27_UploadEnds ==
  (IsSome(editor.fileUpload) /\ Get(editor.fileUpload).status = "uploading")
    ~> \/ editor.fileUpload = None
       \/ Get(editor.fileUpload).status \in {"success", "error"}


\* what C28 requires of the state w1 that handleConvertScript makes of w
C28_Guarded(w, w1) ==
  IF IsSome(w.currentProject) /\ Trim(w.editor.scriptContent) # <<>>
  THEN /\ \E req \in w1.pending :
            /\ req.kind = "convertScript"
            /\ req.id = Get(w.currentProject).id
            /\ req.live
            /\ w1.pending = w.pending \cup {req}
       /\ w1.editor.isConverting
  ELSE /\ w1.pending = w.pending
       /\ IsSome(w1.uiState.error)
       /\ Get(w1.uiState.error).code = "CONVERT_ERROR"
       /\ Get(w1.uiState.error).message # ""
       /\ w1.editor.isConverting = w.editor.isConverting
       /\ w1.editor.storyboard = w.editor.storyboard

\* C28: the editor issues a convertScript request only when an active project exists
\* and the script is not blank; otherwise it records a CONVERT_ERROR message in the
\* error slot, sends no request and leaves isConverting and the displayed scene list
\* unchanged.  This holds of the handler in every state, and of every click on
\* Generate Storyboard.
C28_ConvertGuard ==
  [][ /\ C28_Guarded(World, handleConvertScript(World))
      /\ ConvertScript => /\ C28_Guarded(World, World')
                          /\ IsSome(currentProject) => pending' # pending ]_vars

\* Generate Storyboard was clicked on the new-project page with a script typed in:
\* the error is recorded, nothing is in flight and the editor is not converting
C28_Witness ==
  /\ location = Loc("editor", 0)
  /\ ViewOf(World) = "editor"
  /\ currentProject = None
  /\ Trim(editor.scriptContent) # <<>>
  /\ uiState.error =
       Some(AppError("CONVERT_ERROR", "Please enter a script before converting"))
  /\ ~editor.isConverting
  /\ Pending("convertScript") = {}


C30_UpdateKeepsOrder ==
  [][ \A p \in ProjectValues :
        StoreUpdateProject(p)
        => /\ Len(projects') = Len(projects)
           /\ \A i \in 1..Len(projects) :
                /\ projects[i].id = p.id => projects'[i] = p
                /\ projects[i].id # p.id => projects'[i] = projects[i]
           /\ (\A i \in 1..Len(projects) : projects[i].id # p.id)
                => projects' = projects ]_vars

\* a list that no response carries: the first entry of a two-entry list was replaced
\* in place by the project with its script and scenes
C30_Witness ==
  projects = << Project(1, <<"a">>, Some(<<"sc1">>)), Project(2, <<"b">>, Some(<<>>)) >>

=============================================================================
